---- MODULE Spec2Model ----
(***************************************************************************)
(* State-machine model of the saunds audio band splitter:                  *)
(*   src/src/main.rs       main: input check, output directory, load,      *)
(*                         separate, save low band, save high band         *)
(*   src/src/audio/mod.rs  AudioProcessor: load_audio, save_audio,         *)
(*                         separate_frequencies (windowed overlap-add)     *)
(*                                                                         *)
(* Arithmetic is exact.  The frame is scaled from 2048 points to 4 points, *)
(* where the transform's roots of unity are 1, i, -1, -i, so that spectra  *)
(* are Gaussian integers.  Numbers are kept as integer numerators:         *)
(*   samples                    in units of 1/32768 (the i16 full scale)   *)
(*   window_func                in units of 1/2     (Hann is 0.5 * (...))  *)
(*   window, spectra, *_window  in units of 1/2 of a sample unit           *)
(*   low_freq, high_freq        in units of 1/OutScale of a sample unit    *)
(* Vectors are sequences; the code's index i is position i + 1.            *)
(***************************************************************************)
EXTENDS Integers, Sequences, FiniteSets, TLC

\* ------------------------------------------------------------- bounds
\* longest decoded signal
MaxLen == 4
\* most samples one decoded frame carries
MaxFrameData == 2

\* raw i16 sample values a decoded frame may carry
SampleVals == {0, 1}
\* cutoff frequencies (Hz) given on the command line: the two defaults'
\* bin, a pass band edge, Nyquist's bin and one beyond Nyquist
Cutoffs == {200, 12000, 23000, 34000}
\* what the forward transform may leave in its input buffer
ScratchVal == 7

\* ---------------------------------------------------------- constants
sample_rate == 44100
window_size == 4
overlap == window_size \div 2
\* sample_rate / window_size
freq_per_bin == sample_rate \div window_size
\* bins of the half spectrum: window_size / 2 + 1
spectrum_len == window_size \div 2 + 1
\* low_freq and high_freq are kept multiplied by this: 2 (window) * 2
\* (window_func) * window_size (the division of the overlap-add)
OutScale == 2 * 2 * window_size

\* errors minimp3's next_frame reports: the end of the stream, or data it
\* cannot decode
DecodeErrors == {"Eof", "InsufficientData"}

VARIABLES
    pc,                 \* position in main / separate_frequencies
    result,             \* main's result: "running", "Ok" (exit 0), "Err"
    failure,            \* the error main returned, "none" if none
    input_exists, output_exists,
    dir_created,        \* this run created the output directory
    low_cutoff, high_cutoff,
    samples, frame_count,
    decode_error,       \* the error that ended load_audio's loop
    low_freq, high_freq,
    window, spectrum, low_spectrum, high_spectrum,
    chunk_start, processed_windows,
    frames,             \* chunk_start of every frame filled, in order
    low_hits, high_hits,\* number of += each accumulator index received
    written             \* output files this run created

vars == <<pc, result, failure, input_exists, output_exists, dir_created,
          low_cutoff, high_cutoff, samples, frame_count, decode_error, low_freq,
          high_freq, window, spectrum, low_spectrum, high_spectrum,
          chunk_start, processed_windows, frames, low_hits, high_hits,
          written>>

\* ------------------------------------------------------------ helpers
Zero == [re |-> 0, im |-> 0]
Zeros(n) == [i \in 1..n |-> 0]
CZeros(n) == [i \in 1..n |-> Zero]
CAdd(a, b) == [re |-> a.re + b.re, im |-> a.im + b.im]

\* z * i^p
MulI(z, p) ==
    CASE p % 4 = 0 -> z
      [] p % 4 = 1 -> [re |-> -z.im, im |-> z.re]
      [] p % 4 = 2 -> [re |-> -z.re, im |-> -z.im]
      [] p % 4 = 3 -> [re |-> z.im, im |-> -z.re]

\* 2 * cos(2 * PI * i / window_size) is 2, 0, -2, 0 on the 4-point frame
TwoCos(i) ==
    CASE i % 4 = 0 -> 2
      [] i % 4 = 1 -> 0
      [] i % 4 = 2 -> -2
      [] i % 4 = 3 -> 0

\* Hann coefficient i, in halves: 2 * 0.5 * (1 - cos(2 PI i / window_size))
window_func(i) == (2 - TwoCos(i)) \div 2

\* cutoff (Hz) to bin: (cutoff / freq_per_bin) as usize, which truncates
\* and saturates a negative quotient to 0
Bin(cutoff) == IF cutoff < 0 THEN 0 ELSE cutoff \div freq_per_bin
low_bin == Bin(low_cutoff)
high_bin == Bin(high_cutoff)

\* (samples.len() / overlap).ceil()
total_windows == (Len(samples) + overlap - 1) \div overlap

RECURSIVE CSum(_, _, _)
CSum(f, lo, hi) == IF lo > hi THEN Zero ELSE CAdd(f[lo], CSum(f, lo + 1, hi))

\* forward real-to-complex transform (unnormalised):
\* X[k] = sum_n x[n] * e^(-2 PI i k n / window_size), k = 0..window_size/2
Forward(x) ==
    [k1 \in 1..spectrum_len |->
        CSum([n1 \in 1..window_size |->
                 MulI([re |-> x[n1], im |-> 0],
                      4 - (((k1 - 1) * (n1 - 1)) % 4))],
             1, window_size)]

\* inverse complex-to-real transform (unnormalised): the half spectrum is
\* extended by conjugate symmetry; the imaginary parts of the first and
\* last bin do not enter
Inverse(X) ==
    [n1 \in 1..window_size |->
        X[1].re
        + (IF (n1 - 1) % 2 = 0 THEN X[spectrum_len].re ELSE -X[spectrum_len].re)
        + 2 * CSum([k1 \in 1..spectrum_len |->
                      IF k1 = 1 \/ k1 = spectrum_len THEN Zero
                      ELSE MulI(X[k1], (k1 - 1) * (n1 - 1))],
                   1, spectrum_len).re]

\* ------------------------------------------------- separate_frequencies
\* mutant: the accumulators are allocated like the window buffer
NewAccumulatorWindowSized == Zeros(window_size)

\* vec![0.0; samples.len()]
NewAccumulator == Zeros(Len(samples))

\* mutant: the buffer is not cleared
ClearedNot(buf) == buf

\* window.fill(0.0)
Cleared(buf) == [i1 \in 1..Len(buf) |-> 0]

\* "Fill window with samples": the cleared buffer, with sample
\* chunk_start + i times window_func[i] wherever chunk_start + i is in range
FilledWindow(buf, cs) ==
    [i1 \in 1..window_size |->
        IF cs + (i1 - 1) < Len(samples)
        THEN samples[cs + i1] * window_func(i1 - 1)
        ELSE Cleared(buf)[i1]]

\* mutant: the high band's mask also drops bin low_bin
MaskHighInclusive(X) ==
    [i1 \in 1..Len(X) |-> IF (i1 - 1) <= low_bin THEN Zero ELSE X[i1]]

\* the frequency masks, as the loop's if / else if applies them to bin i
MaskHigh(X) ==
    [i1 \in 1..Len(X) |-> IF (i1 - 1) < low_bin THEN Zero ELSE X[i1]]
MaskLow(X) ==
    [i1 \in 1..Len(X) |->
        IF (i1 - 1) < low_bin THEN X[i1]
        ELSE IF (i1 - 1) > high_bin THEN Zero
        ELSE X[i1]]

\* mutant: the range check of the overlap-add is off by one
WriteIdxInclusive(cs) ==
    {cs + i : i \in {j \in 0..(window_size - 1) : cs + j <= Len(samples)}}

\* accumulator indices the overlap-add of the frame at cs writes
WriteIdx(cs) ==
    {cs + i : i \in {j \in 0..(window_size - 1) : cs + j < Len(samples)}}

\* acc[cs + i] += win[i] * window_func[i] / window_size
OverlapAdd(acc, win, cs) ==
    [n1 \in 1..Len(acc) |->
        IF (n1 - 1) \in WriteIdx(cs)
        THEN acc[n1] + win[n1 - cs] * window_func(n1 - 1 - cs)
        ELSE acc[n1]]

\* ghost: one more += at every index of idx
Hit(hits, idx) ==
    [n1 \in 1..Len(hits) |-> hits[n1] + (IF (n1 - 1) \in idx THEN 1 ELSE 0)]

\* mutant: the loop steps by a whole window
NextChunkNoOverlap(cs) == cs + window_size

\* the first chunk_start after cs that (0..len).step_by(overlap) yields
NextChunk(cs) == cs + overlap

\* ------------------------------------------------------------ actions
\* mutant: the error is recorded but the run goes on to save the bands
FailSwallowed(kind) ==
    /\ pc' = "save_low"
    /\ result' = result
    /\ failure' = kind

\* main returns Err(e)
Fail(kind) ==
    /\ pc' = "exit"
    /\ result' = "Err"
    /\ failure' = kind

Init ==
    /\ pc = "main"
    /\ result = "running"
    /\ failure = "none"
    /\ input_exists \in BOOLEAN
    /\ output_exists \in BOOLEAN
    /\ dir_created = FALSE
    /\ low_cutoff \in Cutoffs
    /\ high_cutoff \in Cutoffs
    /\ samples = <<>>
    /\ frame_count = 0
    /\ decode_error = "none"
    /\ low_freq = <<>>
    /\ high_freq = <<>>
    /\ window = <<>>
    /\ spectrum = <<>>
    /\ low_spectrum = <<>>
    /\ high_spectrum = <<>>
    /\ chunk_start = 0
    /\ processed_windows = 0
    /\ frames = <<>>
    /\ low_hits = Zeros(MaxLen + window_size)
    /\ high_hits = Zeros(MaxLen + window_size)
    /\ written = {}

\* mutant: the missing input is logged but main does not return
CheckInputNoReturn ==
    /\ pc = "main"
    /\ pc' = "mkdir"
    /\ UNCHANGED <<result, failure, input_exists, output_exists, dir_created,
                   low_cutoff, high_cutoff, samples, frame_count,
                   decode_error, low_freq, high_freq, window, spectrum,
                   low_spectrum, high_spectrum, chunk_start,
                   processed_windows, frames, low_hits, high_hits, written>>

\* main: "Verify input file exists"
CheckInput ==
    /\ pc = "main"
    /\ IF ~input_exists
       THEN /\ pc' = "exit"
            /\ result' = "Ok"
       ELSE /\ pc' = "mkdir"
            /\ result' = result
    /\ UNCHANGED <<failure, input_exists, output_exists, dir_created, low_cutoff,
                   high_cutoff, samples, frame_count, decode_error, low_freq,
                   high_freq, window, spectrum, low_spectrum, high_spectrum,
                   chunk_start, processed_windows, frames, low_hits,
                   high_hits, written>>

\* main: "Create output directory if it does not exist"; create_dir_all
\* may fail
CreateOutputDir ==
    /\ pc = "mkdir"
    /\ \/ /\ output_exists
          /\ pc' = "open"
          /\ UNCHANGED <<result, failure, output_exists, dir_created>>
       \/ /\ ~output_exists
          /\ output_exists' = TRUE
          /\ dir_created' = TRUE
          /\ pc' = "open"
          /\ UNCHANGED <<result, failure>>
       \/ /\ ~output_exists
          /\ Fail("Io")
          /\ UNCHANGED <<output_exists, dir_created>>
    /\ UNCHANGED <<input_exists, low_cutoff, high_cutoff, samples,
                   frame_count, decode_error, low_freq, high_freq, window,
                   spectrum, low_spectrum, high_spectrum, chunk_start,
                   processed_windows, frames, low_hits, high_hits, written>>

\* load_audio: File::open(&path)? ; samples and frame_count start empty
OpenInput ==
    /\ pc = "open"
    /\ \/ /\ pc' = "decode"
          /\ UNCHANGED <<result, failure>>
       \/ Fail("Io")
    /\ samples' = <<>>
    /\ frame_count' = 0
    /\ UNCHANGED <<input_exists, output_exists, dir_created, low_cutoff, high_cutoff,
                   decode_error, low_freq, high_freq, window, spectrum,
                   low_spectrum, high_spectrum, chunk_start,
                   processed_windows, frames, low_hits, high_hits, written>>

\* the data of one decoded frame
FrameData == UNION {[1..n -> SampleVals] : n \in 1..MaxFrameData}

\* load_audio: one turn of  while let Ok(Frame { data, .. }) = next_frame():
\* an Ok frame extends samples; any Err ends the loop and load_audio
\* returns Ok(samples)
NextFrame ==
    /\ pc = "decode"
    /\ \/ \E data \in FrameData :
             /\ Len(samples) + Len(data) <= MaxLen
             /\ samples' = samples \o data
             /\ frame_count' = frame_count + 1
             /\ UNCHANGED <<pc, decode_error>>
       \/ \E e \in DecodeErrors :
             /\ decode_error' = e
             /\ pc' = "separate"
             /\ UNCHANGED <<samples, frame_count>>
    /\ UNCHANGED <<result, failure, input_exists, output_exists, dir_created, low_cutoff,
                   high_cutoff, low_freq, high_freq, window, spectrum,
                   low_spectrum, high_spectrum, chunk_start,
                   processed_windows, frames, low_hits, high_hits, written>>

\* separate_frequencies up to the loop: buffers and counters
BeginSeparate ==
    /\ pc = "separate"
    /\ low_freq' = NewAccumulator
    /\ high_freq' = NewAccumulator
    /\ window' = Zeros(window_size)
    /\ spectrum' = CZeros(spectrum_len)
    /\ processed_windows' = 0
    /\ chunk_start' = 0
    /\ pc' = "loop"
    /\ UNCHANGED <<result, failure, input_exists, output_exists, dir_created, low_cutoff,
                   high_cutoff, samples, frame_count, decode_error,
                   low_spectrum, high_spectrum, frames, low_hits, high_hits,
                   written>>

\* the loop yields the next chunk_start; the window is cleared and filled
FillWindow ==
    /\ pc = "loop"
    /\ chunk_start < Len(samples)
    /\ processed_windows' = processed_windows + 1
    /\ window' = FilledWindow(window, chunk_start)
    /\ frames' = Append(frames, chunk_start)
    /\ pc' = "forward"
    /\ UNCHANGED <<result, failure, input_exists, output_exists, dir_created, low_cutoff,
                   high_cutoff, samples, frame_count, decode_error, low_freq,
                   high_freq, spectrum, low_spectrum, high_spectrum,
                   chunk_start, low_hits, high_hits, written>>

\* fft.process(&mut window, &mut spectrum)?: the input buffer is scratch
\* space of the transform, so what it holds afterwards is not specified
ForwardFFT ==
    /\ pc = "forward"
    /\ \/ /\ spectrum' = Forward(window)
          /\ window' \in {window, [i1 \in 1..window_size |-> ScratchVal]}
          /\ pc' = "mask"
          /\ UNCHANGED <<result, failure>>
       \/ /\ Fail("Transform")
          /\ UNCHANGED <<spectrum, window>>
    /\ UNCHANGED <<input_exists, output_exists, dir_created, low_cutoff, high_cutoff,
                   samples, frame_count, decode_error, low_freq, high_freq,
                   low_spectrum, high_spectrum, chunk_start,
                   processed_windows, frames, low_hits, high_hits, written>>

\* "Separate frequencies" / "Apply frequency masks"
ApplyMasks ==
    /\ pc = "mask"
    /\ low_spectrum' = MaskLow(spectrum)
    /\ high_spectrum' = MaskHigh(spectrum)
    /\ pc' = "inverse"
    /\ UNCHANGED <<result, failure, input_exists, output_exists, dir_created, low_cutoff,
                   high_cutoff, samples, frame_count, decode_error, low_freq,
                   high_freq, window, spectrum, chunk_start,
                   processed_windows, frames, low_hits, high_hits, written>>

\* both inverse transforms, then the overlap-add; either inverse may fail,
\* and then nothing is added
InverseAndAdd ==
    /\ pc = "inverse"
    /\ \/ /\ low_freq' = OverlapAdd(low_freq, Inverse(low_spectrum), chunk_start)
          /\ high_freq' = OverlapAdd(high_freq, Inverse(high_spectrum), chunk_start)
          /\ low_hits' = Hit(low_hits, WriteIdx(chunk_start))
          /\ high_hits' = Hit(high_hits, WriteIdx(chunk_start))
          /\ chunk_start' = NextChunk(chunk_start)
          /\ pc' = "loop"
          /\ UNCHANGED <<result, failure>>
       \/ /\ \E which \in {"TransformLow", "TransformHigh"} : Fail(which)
          /\ UNCHANGED <<low_freq, high_freq, low_hits, high_hits, chunk_start>>
    /\ UNCHANGED <<input_exists, output_exists, dir_created, low_cutoff, high_cutoff,
                   samples, frame_count, decode_error, window, spectrum,
                   low_spectrum, high_spectrum, processed_windows, frames,
                   written>>

\* the loop is exhausted: Ok((low_freq, high_freq)) goes back to main
ReturnBands ==
    /\ pc = "loop"
    /\ ~(chunk_start < Len(samples))
    /\ pc' = "save_low"
    /\ UNCHANGED <<result, failure, input_exists, output_exists, dir_created, low_cutoff,
                   high_cutoff, samples, frame_count, decode_error, low_freq,
                   high_freq, window, spectrum, low_spectrum, high_spectrum,
                   chunk_start, processed_windows, frames, low_hits,
                   high_hits, written>>

\* save_audio(path, band)?: the writer cannot be created (no file), or a
\* sample or the header cannot be written (the file exists), or all is
\* written
SaveAudio(name, next, done) ==
    /\ \/ /\ written' = written \cup {name}
          /\ pc' = next
          /\ result' = done
          /\ UNCHANGED failure
       \/ /\ Fail("Encode")
          /\ written' \in {written, written \cup {name}}
    /\ UNCHANGED <<input_exists, output_exists, dir_created, low_cutoff, high_cutoff,
                   samples, frame_count, decode_error, low_freq, high_freq,
                   window, spectrum, low_spectrum, high_spectrum, chunk_start,
                   processed_windows, frames, low_hits, high_hits>>

SaveLow ==
    /\ pc = "save_low"
    /\ SaveAudio("low_freq.wav", "save_high", result)

SaveHigh ==
    /\ pc = "save_high"
    /\ SaveAudio("high_freq.wav", "exit", "Ok")

Next ==
    \/ CheckInput
    \/ CreateOutputDir
    \/ OpenInput
    \/ NextFrame
    \/ BeginSeparate
    \/ FillWindow
    \/ ForwardFFT
    \/ ApplyMasks
    \/ InverseAndAdd
    \/ ReturnBands
    \/ SaveLow
    \/ SaveHigh

Spec == Init /\ [][Next]_vars

\* the run cannot stop before main returns
FairSpec == Spec /\ WF_vars(Next)

\* ------------------------------------------------------------- claims
InLoop == pc \in {"loop", "forward", "mask", "inverse"}
Returned == pc \in {"save_low", "save_high"}
AllZero(v) == \A i1 \in 1..Len(v) : v[i1] = 0
AllCZero(X) == \A i1 \in 1..Len(X) : X[i1] = Zero
AboveNyquist(cutoff) == 2 * cutoff > sample_rate
TransformErrors == {"Transform", "TransformLow", "TransformHigh"}
\* frames whose window covers accumulator index n
Covering(n) ==
    {k \in 1..Len(frames) : frames[k] <= n /\ n < frames[k] + window_size}

\* C1: in every state of the frame loop and on return, the low band and the
\* high band have exactly the length of the input signal (0 included).
C1_LengthInvariant ==
    (InLoop \/ Returned) =>
        /\ Len(low_freq) = Len(samples)
        /\ Len(high_freq) = Len(samples)

\* a signal shorter than one window went through two frames and was returned
C1_Witness ==
    /\ pc = "save_low"
    /\ Len(samples) = window_size - 1
    /\ Len(frames) = 2
    /\ Len(low_freq) = window_size - 1
    /\ Len(high_freq) = window_size - 1

\* C2: after the masks of a frame, for every bin i, high_spectrum[i] is zero
\* if i < low_bin and spectrum[i] otherwise, and low_spectrum[i] is zero if
\* i > high_bin and spectrum[i] otherwise, whatever the order of the cutoffs.
C2_IndependentMasks ==
    pc = "inverse" =>
        \A i1 \in 1..spectrum_len :
            /\ high_spectrum[i1] =
                   (IF (i1 - 1) < low_bin THEN Zero ELSE spectrum[i1])
            /\ low_spectrum[i1] =
                   (IF (i1 - 1) > high_bin THEN Zero ELSE spectrum[i1])

\* C3: when the decoder reports an error other than the end of the stream,
\* main returns the error, separation is not started and no output file is
\* written.
C3_DecodeErrorAborts ==
    decode_error \notin {"none", "Eof"} =>
        /\ pc = "exit"
        /\ result = "Err"
        /\ frames = <<>>
        /\ written = {}

\* C4: when a transform of a frame fails, main has returned the error, the
\* loop stands at the failing frame, nothing more can happen, and neither
\* output file was written.
C4_TransformErrorAborts ==
    failure \in TransformErrors =>
        /\ pc = "exit"
        /\ result = "Err"
        /\ written = {}
        /\ frames # <<>>
        /\ chunk_start = frames[Len(frames)]
        /\ Len(frames) = processed_windows
        /\ ~ENABLED Next

\* the second frame's inverse transform of the high band failed
C4_Witness ==
    /\ failure = "TransformHigh"
    /\ Len(frames) = 2
    /\ pc = "exit"
    /\ result = "Err"
    /\ written = {}

\* C5: when the input path does not exist, the run ends with Ok (exit code
\* 0) straight from the check: no directory is created, nothing is decoded
\* or separated, no output file is written.
C5_MissingInputExitsOk ==
    ~input_exists =>
        /\ pc \in {"main", "exit"}
        /\ pc = "exit" => (result = "Ok" /\ failure = "none")
        /\ ~dir_created
        /\ samples = <<>> /\ frame_count = 0 /\ decode_error = "none"
        /\ frames = <<>>
        /\ written = {}

\* the input and the output directory are both missing and main has returned
C5_Witness ==
    /\ ~input_exists
    /\ ~output_exists
    /\ pc = "exit"
    /\ result = "Ok"

\* C6: for an all-zero signal, in every frame the window handed to the
\* transform, the spectra and both accumulators are zero.
C6_SilencePreserved ==
    ((InLoop \/ Returned) /\ AllZero(samples)) =>
        /\ AllZero(low_freq)
        /\ AllZero(high_freq)
        /\ pc = "forward" => AllZero(window)
        /\ pc \in {"mask", "inverse"} => AllCZero(spectrum)
        /\ pc = "inverse" => (AllCZero(low_spectrum) /\ AllCZero(high_spectrum))

\* a full window of silence went through two frames and was returned
C6_Witness ==
    /\ pc = "save_low"
    /\ Len(samples) = window_size
    /\ AllZero(samples)
    /\ Len(frames) = 2
    /\ AllZero(low_freq)
    /\ AllZero(high_freq)

\* C7: on return, a band whose mask kept every bin equals the signal at
\* every index n >= hop (the squared window coefficients of the two frames
\* covering n, which multiply the signal there, sum to 1).
C7_UnitGain ==
    Returned =>
        \A n \in overlap..(Len(samples) - 1) :
            /\ low_bin = 0 => high_freq[n + 1] = OutScale * samples[n + 1]
            /\ high_bin >= window_size \div 2 =>
                   low_freq[n + 1] = OutScale * samples[n + 1]

\* C8 as stated: a cutoff above Nyquist leaves the spectrum of the band it
\* controls unmodified in every frame.
C8_NoOpBothBands ==
    pc = "inverse" =>
        /\ AboveNyquist(high_cutoff) => low_spectrum = spectrum
        /\ AboveNyquist(low_cutoff) => high_spectrum = spectrum

\* C8 amended: a high cutoff above Nyquist leaves low_spectrum unmodified in
\* every frame; a low cutoff above Nyquist zeroes every bin of high_spectrum
\* below window_size/2, and keeps bin window_size/2 exactly when low_bin is
\* window_size/2.
C8_AboveNyquist ==
    pc = "inverse" =>
        /\ AboveNyquist(high_cutoff) => low_spectrum = spectrum
        /\ AboveNyquist(low_cutoff) =>
               /\ \A i1 \in 1..(spectrum_len - 1) : high_spectrum[i1] = Zero
               /\ high_spectrum[spectrum_len] =
                      (IF low_bin = window_size \div 2
                       THEN spectrum[spectrum_len] ELSE Zero)

\* both cutoffs are above Nyquist and the frame has energy in the first and
\* the last bin
C8_Witness ==
    /\ pc = "inverse"
    /\ AboveNyquist(low_cutoff)
    /\ AboveNyquist(high_cutoff)
    /\ low_bin = window_size \div 2
    /\ spectrum[1] # Zero
    /\ spectrum[spectrum_len] # Zero
    /\ low_spectrum = spectrum
    /\ high_spectrum[1] = Zero
    /\ high_spectrum[spectrum_len] = spectrum[spectrum_len]

\* C9: the frames filled are, in order, chunk_start = 0, hop, 2 hop, ...,
\* all below the signal length; the window handed to the transform is the
\* full zero-padded window of the signal at chunk_start; and the loop ends
\* having filled ceil(L / hop) frames.
C9_FrameInv ==
    /\ \A k \in 1..Len(frames) :
           frames[k] = (k - 1) * overlap /\ frames[k] < Len(samples)
    /\ InLoop => processed_windows = Len(frames)
    /\ pc = "forward" =>
           /\ Len(window) = window_size
           /\ \A i \in 0..(window_size - 1) :
                  window[i + 1] =
                      (IF chunk_start + i < Len(samples)
                       THEN samples[chunk_start + i + 1] * window_func(i)
                       ELSE 0)
    /\ Returned =>
           /\ processed_windows = total_windows
           /\ Len(frames) = total_windows
           /\ \A k \in 0..(MaxLen - 1) :
                  k * overlap < Len(samples) => Len(frames) > k

C9_Frames == []C9_FrameInv /\ (InLoop ~> ~InLoop)

\* a signal with a trailing partial frame was returned after two frames
C9_Witness ==
    /\ pc = "save_low"
    /\ Len(samples) = window_size - 1
    /\ frames = <<0, overlap>>
    /\ processed_windows = 2

====
